---------------------------- MODULE Spec2Model ----------------------------
(***************************************************************************)
(* A model of StatsigServer (src/src/StatsigServer.ts): the initialization *)
(* lifecycle with its optional timeout race, shutdown, and the gate /      *)
(* config / experiment / layer evaluation paths with their local and       *)
(* remote branches and the exposure calls made on the log queue.           *)
(*                                                                         *)
(* One JavaScript job (a public method call, a promise callback, a timer   *)
(* callback) runs to completion, so each is one action.  The collaborators *)
(* (Evaluator, StatsigFetcher, LogEventProcessor) are the environment:     *)
(* what the evaluator returns and how a dispatch or a ruleset load ends is *)
(* chosen nondeterministically; the calls made on them are recorded.       *)
(***************************************************************************)
EXTENDS Integers, Sequences, FiniteSets, TLC

\* ------------------------------------------------------------------ bounds
\* evaluator.init() calls (initialization attempts) explored per behaviour
MaxAttempts == 2
\* initialize() calls whose returned future is recorded
MaxInitCalls == 3
\* shutdown() calls explored per behaviour
MaxShutdowns == 2
\* checkGate / getConfig / getExperiment / getLayer calls explored per behaviour
MaxCalls == 1
\* invocations of Layers' exposure callbacks explored per behaviour
MaxLayerLogs == 2
\* logEvent / logEventObject / getClientInitializeResponse calls explored per behaviour
MaxSyncCalls == 2
\* flush() calls explored per behaviour
MaxFlushes == 1

\* ------------------------------------------------------- program constants
\* a positive value of options.initTimeoutMs
TimeoutMs == 3000

\* The futures an initialize() call can return: the one attempt a stored in
\* _pendingInitPromise, a fresh Promise.resolve(), a fresh Promise.reject().
FutureOf(a) == [kind |-> "attempt", id |-> a]
ResolvedNow == [kind |-> "resolved-now", id |-> 0]
RejectedNow == [kind |-> "rejected-now", id |-> 0]

VARIABLES
  _ready,               \* this._ready
  _pendingInitPromise,  \* this._pendingInitPromise: 0 for null, else the attempt whose future it is
  _secretKey,           \* this._secretKey, as the facts initializeAsync reads of it
  initTimeoutMs,        \* this._options.initTimeoutMs: 0 (also standing for unset) or TimeoutMs
  nAttempts,            \* evaluator.init() calls made so far
  load,                 \* load[a]: the promise of attempt a's evaluator.init()
  timer,                \* timer[a]: attempt a's setTimeout
  promise,              \* promise[a]: the future attempt a stored in _pendingInitPromise
  initCalls,            \* the initialize() calls made, in order: what each found, started and returned
  shutdowns,            \* shutdown() calls made so far
  shutdownCalls,        \* the collaborators whose shutdown() the last shutdown() call invoked, in order
  sinceShutdown,        \* "none": never shut down; "quiet": no initialize() since the last shutdown(); "init": one was made
  environment,          \* this._options.environment: "null" or the configured tag
  calls,                \* the checkGate / getConfig / getExperiment / getLayer calls made, each with the future it returned
  evaluatorCalls,       \* calls made on this._evaluator (checkGate, getConfig, getLayer, getClientInitializeResponse)
  dispatches,           \* calls made on this._fetcher.dispatch, in order
  logQueue,             \* calls made on this._logger (the exposure records pushed), in order
  invocations,          \* the invocations of Layers' exposure callbacks by callers, in order
  hasLoggedNoUserIdWarning, \* the module-level flag of line 17
  syncCalls,            \* the logEventObject / getClientInitializeResponse calls made, in order, each with how it ended
  logged,               \* the LogEvents passed to this._logger.log, in order
  flushes               \* calls made on this._logger.flush

lifeVars == <<_ready, _pendingInitPromise, _secretKey, initTimeoutMs, nAttempts,
              load, timer, promise, initCalls, shutdowns, shutdownCalls, sinceShutdown>>

evalVars == <<environment, calls, evaluatorCalls, dispatches, logQueue, invocations>>

logVars == <<hasLoggedNoUserIdWarning, syncCalls, logged, flushes>>

vars == <<lifeVars, evalVars, logVars>>

Attempts == 1..MaxAttempts

\* ------------------------------------------------------------ secret key
\* The keys tried: a well-formed one and the three ways of being malformed.
SecretKeys ==
  { [isString |-> TRUE,  length |-> 12, secretPrefix |-> TRUE],
    [isString |-> TRUE,  length |-> 0,  secretPrefix |-> FALSE],
    [isString |-> TRUE,  length |-> 12, secretPrefix |-> FALSE],
    [isString |-> FALSE, length |-> 0,  secretPrefix |-> FALSE] }

\* the key check without the startsWith('secret-') test of line 57
KeyIsValidIgnoresPrefix(key) ==
  ~ (~key.isString \/ key.length = 0)

\* the condition of lines 54-58, negated
KeyIsValid(key) ==
  ~ (~key.isString \/ key.length = 0 \/ ~key.secretPrefix)

\* the condition of lines 70-73 (an unset initTimeoutMs is modelled as 0: both
\* take the else branch)
HasTimeout(ms) == ms > 0

\* ------------------------------------------------------------------ Init
LifeInit ==
  /\ _ready = FALSE
  /\ _pendingInitPromise = 0
  /\ _secretKey \in SecretKeys
  /\ initTimeoutMs \in {0, TimeoutMs}
  /\ nAttempts = 0
  /\ load = [a \in Attempts |-> "none"]
  /\ timer = [a \in Attempts |-> "none"]
  /\ promise = [a \in Attempts |-> "none"]
  /\ initCalls = <<>>
  /\ shutdowns = 0
  /\ shutdownCalls = <<>>
  /\ sinceShutdown = "none"

\* ------------------------------------------------------------ initialize
\* initializeAsync() without the check of lines 46-48: a call made while an
\* attempt is pending starts another one.
InitializeEffectIgnoresPending(ret) ==
  IF _ready = TRUE
    THEN /\ ret = ResolvedNow
         /\ UNCHANGED <<_ready, _pendingInitPromise, nAttempts, load, timer, promise>>
  ELSE IF ~KeyIsValid(_secretKey)
    THEN /\ ret = RejectedNow
         /\ UNCHANGED <<_ready, _pendingInitPromise, nAttempts, load, timer, promise>>
  ELSE /\ nAttempts < MaxAttempts
       /\ ret = FutureOf(nAttempts + 1)
       /\ nAttempts' = nAttempts + 1
       /\ load' = [load EXCEPT ![nAttempts + 1] = "pending"]
       /\ timer' = [timer EXCEPT ![nAttempts + 1] =
                      IF HasTimeout(initTimeoutMs) THEN "pending" ELSE "none"]
       /\ promise' = [promise EXCEPT ![nAttempts + 1] = "pending"]
       /\ _pendingInitPromise' = nAttempts + 1
       /\ UNCHANGED _ready

\* The state change of one initializeAsync() call and the future it returns.
InitializeEffect(ret) ==
  IF _pendingInitPromise # 0
    THEN /\ ret = FutureOf(_pendingInitPromise)
         /\ UNCHANGED <<_ready, _pendingInitPromise, nAttempts, load, timer, promise>>
  ELSE IF _ready = TRUE
    THEN /\ ret = ResolvedNow
         /\ UNCHANGED <<_ready, _pendingInitPromise, nAttempts, load, timer, promise>>
  ELSE IF ~KeyIsValid(_secretKey)
    THEN /\ ret = RejectedNow
         /\ UNCHANGED <<_ready, _pendingInitPromise, nAttempts, load, timer, promise>>
  ELSE /\ nAttempts < MaxAttempts
       /\ ret = FutureOf(nAttempts + 1)
       /\ nAttempts' = nAttempts + 1
       /\ load' = [load EXCEPT ![nAttempts + 1] = "pending"]
       /\ timer' = [timer EXCEPT ![nAttempts + 1] =
                      IF HasTimeout(initTimeoutMs) THEN "pending" ELSE "none"]
       /\ promise' = [promise EXCEPT ![nAttempts + 1] = "pending"]
       /\ _pendingInitPromise' = nAttempts + 1
       /\ UNCHANGED _ready

initializeAsync ==
  /\ Len(initCalls) < MaxInitCalls
  /\ \E ret \in {FutureOf(a) : a \in Attempts} \cup {ResolvedNow, RejectedNow} :
       /\ InitializeEffect(ret)
       /\ initCalls' = Append(initCalls,
            [found |-> _pendingInitPromise, readyBefore |-> _ready,
             loadsBefore |-> nAttempts, loadsAfter |-> nAttempts', ret |-> ret])
  /\ sinceShutdown' = IF sinceShutdown = "none" THEN "none" ELSE "init"
  /\ UNCHANGED <<_secretKey, initTimeoutMs, shutdowns, shutdownCalls>>
  /\ UNCHANGED <<evalVars, logVars>>

\* The .finally() callback without line 68: it sets _ready and leaves the
\* pending future in place.
LoadSettlesKeepsPending(a, outcome) ==
  /\ load[a] = "pending"
  /\ load' = [load EXCEPT ![a] = outcome]
  /\ _ready' = TRUE
  /\ promise' = [promise EXCEPT ![a] =
                   IF promise[a] = "pending"
                     THEN (IF outcome = "ok" THEN "resolved" ELSE "rejected")
                     ELSE promise[a]]
  /\ UNCHANGED <<_pendingInitPromise, _secretKey, initTimeoutMs, nAttempts, timer,
                 initCalls, shutdowns, shutdownCalls, sinceShutdown>>
  /\ UNCHANGED <<evalVars, logVars>>

\* The callback attached with .then() instead of .finally(): it runs only
\* when evaluator.init() succeeds.
LoadSettlesThen(a, outcome) ==
  /\ load[a] = "pending"
  /\ load' = [load EXCEPT ![a] = outcome]
  /\ IF outcome = "ok"
       THEN _ready' = TRUE /\ _pendingInitPromise' = 0
       ELSE UNCHANGED <<_ready, _pendingInitPromise>>
  /\ promise' = [promise EXCEPT ![a] =
                   IF promise[a] = "pending"
                     THEN (IF outcome = "ok" THEN "resolved" ELSE "rejected")
                     ELSE promise[a]]
  /\ UNCHANGED <<_secretKey, initTimeoutMs, nAttempts, timer, initCalls,
                 shutdowns, shutdownCalls, sinceShutdown>>
  /\ UNCHANGED <<evalVars, logVars>>

\* The .finally() callback of lines 66-69, run when attempt a's
\* evaluator.init() settles; the future derived from it settles with it.
LoadSettles(a, outcome) ==
  /\ load[a] = "pending"
  /\ load' = [load EXCEPT ![a] = outcome]
  /\ _ready' = TRUE
  /\ _pendingInitPromise' = 0
  /\ promise' = [promise EXCEPT ![a] =
                   IF promise[a] = "pending"
                     THEN (IF outcome = "ok" THEN "resolved" ELSE "rejected")
                     ELSE promise[a]]
  /\ UNCHANGED <<_secretKey, initTimeoutMs, nAttempts, timer, initCalls,
                 shutdowns, shutdownCalls, sinceShutdown>>
  /\ UNCHANGED <<evalVars, logVars>>

InitLoadSettles == \E a \in Attempts, outcome \in {"ok", "failed"} : LoadSettles(a, outcome)

\* The timer callback without line 78: it resolves the future and leaves
\* _ready alone.
TimerFiresWithoutReady(a) ==
  /\ timer[a] = "pending"
  /\ timer' = [timer EXCEPT ![a] = "fired"]
  /\ _pendingInitPromise' = 0
  /\ promise' = [promise EXCEPT ![a] =
                   IF promise[a] = "pending" THEN "resolved" ELSE promise[a]]
  /\ UNCHANGED <<_ready, _secretKey, initTimeoutMs, nAttempts, load, initCalls,
                 shutdowns, shutdownCalls, sinceShutdown>>
  /\ UNCHANGED <<evalVars, logVars>>

\* The setTimeout callback of lines 77-81.
TimerFires(a) ==
  /\ timer[a] = "pending"
  /\ timer' = [timer EXCEPT ![a] = "fired"]
  /\ _ready' = TRUE
  /\ _pendingInitPromise' = 0
  /\ promise' = [promise EXCEPT ![a] =
                   IF promise[a] = "pending" THEN "resolved" ELSE promise[a]]
  /\ UNCHANGED <<_secretKey, initTimeoutMs, nAttempts, load, initCalls,
                 shutdowns, shutdownCalls, sinceShutdown>>
  /\ UNCHANGED <<evalVars, logVars>>

InitTimerFires == \E a \in Attempts : TimerFires(a)

\* --------------------------------------------------------------- shutdown
\* this._logger is set by the constructor, so the early return of line 250 is
\* never taken.  The three collaborator calls run in order, and one that
\* throws ends shutdown() there.
Collaborators == <<"logger", "fetcher", "evaluator">>

shutdown ==
  /\ shutdowns < MaxShutdowns
  /\ shutdowns' = shutdowns + 1
  /\ _ready' = FALSE
  /\ \E attempted \in 1..Len(Collaborators) :
       shutdownCalls' = SubSeq(Collaborators, 1, attempted)
  /\ sinceShutdown' = "quiet"
  /\ UNCHANGED <<_pendingInitPromise, _secretKey, initTimeoutMs, nAttempts,
                 load, timer, promise, initCalls>>
  /\ UNCHANGED <<evalVars, logVars>>

\* ------------------------------------------------------------------ flush
\* The constructor creates the log queue, so the guard of line 260 never
\* holds: flush() returns this._logger.flush(), in every state of the instance.
flush ==
  /\ flushes < MaxFlushes
  /\ flushes' = flushes + 1
  /\ UNCHANGED <<lifeVars, evalVars, hasLoggedNoUserIdWarning, syncCalls, logged>>

\* -------------------------------------------------------------- sanitizer
MAX_VALUE_SIZE == 64
MAX_OBJ_SIZE == 1024
MAX_USER_SIZE == 2048

\* A string, as the part of the caller's string it holds: how many units, and
\* the index in the caller's string of its first unit.
Str(length) == [length |-> length, start |-> 0]

Min(a, b) == IF a < b THEN a ELSE b

\* String.prototype.substring(from, to), for from <= to
substring(s, from, to) ==
  [s EXCEPT !.length = Min(to, s.length) - Min(from, s.length),
            !.start = s.start + Min(from, s.length)]

\* A StatsigUser, as the facts the code reads of it: whether it is null, and
\* for userID (a string), customIDs (an object with one entry "id") and custom
\* (an object, empty or with one entry "k") whether the field is present and
\* how many characters its string holds (for userID also where in the
\* caller's string it starts); statsigEnvironment is "null" until
\* normalizeUser stamps it.
MkUser(hasUserID, userID, hasCustomIDs, customIDs, hasCustom, custom) ==
  [isNull |-> FALSE,
   hasUserID |-> hasUserID, userID |-> userID, userIDStart |-> 0,
   hasCustomIDs |-> hasCustomIDs, customIDs |-> customIDs,
   hasCustom |-> hasCustom, custom |-> custom,
   statsigEnvironment |-> "null"]

\* {} : also what trimUserObjIfNeeded(null) returns
EmptyUser == MkUser(FALSE, 0, FALSE, 0, FALSE, 0)

NullUser == [EmptyUser EXCEPT !.isNull = TRUE]

\* JSON.stringify(user).length, for a user that is not null and not yet stamped:
\*   "userID":"<n chars>"           n + 11
\*   "customIDs":{"id":"<k chars>"} k + 21
\*   "custom":{}                    11      "custom":{"k":"<c chars>"}  c + 17
\* joined by commas inside { }.
JSONLength(user) ==
  LET fUserID    == IF user.hasUserID THEN user.userID + 11 ELSE 0
      fCustomIDs == IF user.hasCustomIDs THEN user.customIDs + 21 ELSE 0
      fCustom    == IF ~user.hasCustom THEN 0
                    ELSE IF user.custom = 0 THEN 11 ELSE user.custom + 17
      nFields    == (IF user.hasUserID THEN 1 ELSE 0)
                    + (IF user.hasCustomIDs THEN 1 ELSE 0)
                    + (IF user.hasCustom THEN 1 ELSE 0)
  IN  2 + fUserID + fCustomIDs + fCustom + (IF nFields > 1 THEN nFields - 1 ELSE 0)

\* shouldTrimParam on a string of the given length
shouldTrimString(length, size) == length > size

\* shouldTrimParam on a user object
shouldTrimUser(user, size) == JSONLength(user) > size

\* lines 485-490: user.userID = user.userID.toString().substring(0, MAX_VALUE_SIZE)
userIDTrimmed(user) ==
  IF user.hasUserID /\ shouldTrimString(user.userID, MAX_VALUE_SIZE)
    THEN LET id == substring([length |-> user.userID, start |-> user.userIDStart],
                             0, MAX_VALUE_SIZE)
         IN  [user EXCEPT !.userID = id.length, !.userIDStart = id.start]
    ELSE user

\* line 492: user.custom = {}
customCleared(user) == [user EXCEPT !.hasCustom = TRUE, !.custom = 0]

\* line 497: { userID: user.userID }
onlyUserID(user) ==
  [EmptyUser EXCEPT !.hasUserID = user.hasUserID, !.userID = user.userID,
                    !.userIDStart = user.userIDStart]

\* trimUserObjIfNeeded collapsing an oversized user at once, without first
\* clearing custom and measuring again
trimUserObjIfNeededCollapsesAtOnce(user) ==
  IF user.isNull THEN EmptyUser
  ELSE
    LET u1 == userIDTrimmed(user)
    IN  IF shouldTrimUser(u1, MAX_USER_SIZE) THEN onlyUserID(u1) ELSE u1

trimUserObjIfNeeded(user) ==
  IF user.isNull THEN EmptyUser
  ELSE
    LET u1 == userIDTrimmed(user)
        u2 == customCleared(u1)
    IN  IF shouldTrimUser(u1, MAX_USER_SIZE)
          THEN IF shouldTrimUser(u2, MAX_USER_SIZE)
                 THEN onlyUserID(u2)
                 ELSE u2
          ELSE u1

\* line 478: user['statsigEnvironment'] = options?.environment
stamped(user, env) ==
  IF env # "null" THEN [user EXCEPT !.statsigEnvironment = env] ELSE user

normalizeUser(user, env) == stamped(trimUserObjIfNeeded(user), env)

\* The object the caller passed to normalizeUser, after the call: lines 489
\* and 492 assign to its fields, and line 478 does too unless line 497 has
\* replaced the local reference by a new object.
argumentAfterNormalizeUser(user, env) ==
  IF user.isNull THEN user
  ELSE
    LET u1 == userIDTrimmed(user)
        u2 == customCleared(u1)
    IN  IF shouldTrimUser(u1, MAX_USER_SIZE)
          THEN IF shouldTrimUser(u2, MAX_USER_SIZE)
                 THEN u2
                 ELSE stamped(u2, env)
          ELSE stamped(u1, env)

\* utils/core isUserIdentifiable: a user object carrying a userID or a
\* customIDs entry
isUserIdentifiable(user) ==
  ~user.isNull /\ (user.hasUserID \/ user.hasCustomIDs)

\* --------------------------------------------------------------- inputs
\* The users tried: null, {}, a short userID, an overlong userID, customIDs only.
Users ==
  { NullUser,
    EmptyUser,
    MkUser(TRUE, 5, FALSE, 0, FALSE, 0),
    MkUser(TRUE, 70, FALSE, 0, TRUE, 20),
    MkUser(FALSE, 0, TRUE, 8, FALSE, 0) }

\* Users at and beyond the limits of trimUserObjIfNeeded (JSONLength is n + 13
\* for a userID of n units alone, c + 36 for a 5-unit userID with a custom
\* entry of c units):
\*   a userID of exactly 64 units, and one of 65
\*   a user of exactly 2048 units, and one of 2049 that clearing custom brings under
\*   an overlong userID that alone brings the user over 2048, custom small
\*   an overlong userID and a custom entry that is too large once it is cut
\*   a userID with a customIDs entry too large for the limit
\*   a customIDs entry too large for the limit, and no userID
SizedUsers ==
  { MkUser(TRUE, 64, FALSE, 0, FALSE, 0),
    MkUser(TRUE, 65, FALSE, 0, FALSE, 0),
    MkUser(TRUE, 5, FALSE, 0, TRUE, 2012),
    MkUser(TRUE, 5, FALSE, 0, TRUE, 2013),
    MkUser(TRUE, 2100, FALSE, 0, TRUE, 20),
    MkUser(TRUE, 2100, FALSE, 0, TRUE, 2000),
    MkUser(TRUE, 5, TRUE, 3000, TRUE, 20),
    MkUser(FALSE, 0, TRUE, 3000, FALSE, 0) }

\* The entity names tried: a name, the empty string, a value that is no string.
ValidName == [isString |-> TRUE, length |-> 6, text |-> "a_name"]
Names ==
  { ValidName,
    [isString |-> TRUE, length |-> 0, text |-> ""],
    [isString |-> FALSE, length |-> 0, text |-> "not-a-string"] }

\* What the evaluator can return (a ConfigEvaluation, or null).
Verdict(value, ffs, delegate) ==
  [present |-> TRUE, value |-> value, rule_id |-> "local_rule",
   fetch_from_server |-> ffs, config_delegate |-> delegate]

NullVerdict ==
  [present |-> FALSE, value |-> FALSE, rule_id |-> "",
   fetch_from_server |-> FALSE, config_delegate |-> ""]

\* the call was rejected before the evaluator was asked
NotConsulted == [NullVerdict EXCEPT !.rule_id = "not-consulted"]

GateVerdicts ==
  {Verdict(v, f, "") : v \in BOOLEAN, f \in BOOLEAN} \cup {NullVerdict}

ConfigVerdicts ==
  {Verdict(TRUE, f, "") : f \in BOOLEAN} \cup {NullVerdict}

LayerVerdicts ==
  {Verdict(TRUE, f, d) : f \in BOOLEAN, d \in {"", "delegate"}} \cup {NullVerdict}

\* How a dispatch can end: the request fails, the body does not parse, the
\* body parses to null, or to an object with a value and a rule_id.
Responses ==
  { [outcome |-> "network-error", value |-> FALSE],
    [outcome |-> "parse-error", value |-> FALSE],
    [outcome |-> "json-null", value |-> FALSE],
    [outcome |-> "json", value |-> FALSE],
    [outcome |-> "json", value |-> TRUE] }

\* --------------------------------------------------------- value objects
Pending == [type |-> "pending"]

Failure(why) == [type |-> "error", error |-> why]

Boolean(b) == [type |-> "boolean", value |-> b]

\* new DynamicConfig(name, value, rule_id); empty is new DynamicConfig(name)
DynamicConfig(name, json, rule_id) ==
  [type |-> "DynamicConfig", name |-> name, json |-> json, rule_id |-> rule_id]

\* new Layer(name, value, rule_id, logFunc); empty is new Layer(name)
Layer(name, json, rule_id, hasLogFunc) ==
  [type |-> "Layer", name |-> name, json |-> json, rule_id |-> rule_id,
   hasLogFunc |-> hasLogFunc]

\* ------------------------------------------------------------ evaluation
\* _validateInputs without the branch of lines 315-320
_validateInputsSkipsUserCheck(user, name) ==
  IF _ready # TRUE
    THEN [rejection |-> "Must call initialize() first.", normalizedUser |-> EmptyUser]
  ELSE IF ~name.isString \/ name.length = 0
    THEN [rejection |-> "Must pass a valid name to check", normalizedUser |-> EmptyUser]
  ELSE [rejection |-> "null", normalizedUser |-> normalizeUser(user, environment)]

_validateInputs(user, name) ==
  IF _ready # TRUE
    THEN [rejection |-> "Must call initialize() first.", normalizedUser |-> EmptyUser]
  ELSE IF ~name.isString \/ name.length = 0
    THEN [rejection |-> "Must pass a valid name to check", normalizedUser |-> EmptyUser]
  ELSE IF ~isUserIdentifiable(user)
    THEN [rejection |-> "Must pass a valid user", normalizedUser |-> EmptyUser]
  ELSE [rejection |-> "null", normalizedUser |-> normalizeUser(user, environment)]

\* The record of one public call: its arguments, the caller's user object
\* after the call, whether the instance was ready when it was made, what validation made of them, what the evaluator
\* returned, the future handed to the caller, and how its dispatch ended.
Call(kind, user, name, v, ret, state, result) ==
  [kind |-> kind, user |-> user, name |-> name, readyAtCall |-> _ready,
   userAfter |-> IF v.rejection = "null"
                   THEN argumentAfterNormalizeUser(user, environment)
                   ELSE user,
   normalizedUser |-> v.normalizedUser, ret |-> ret,
   state |-> state, result |-> result, response |-> "none"]

\* rejection ?? ... : the rejected future is returned and nothing else runs
Rejects(kind, user, name, v) ==
  /\ calls' = Append(calls, Call(kind, user, name, v, NotConsulted, "rejected",
                                 Failure(v.rejection)))
  /\ UNCHANGED <<evaluatorCalls, dispatches, logQueue>>

Dispatch(url, user, name) ==
  dispatches' = Append(dispatches, [url |-> url, user |-> user, name |-> name,
                                    call |-> Len(calls) + 1])

\* _getGateValue treating a missing verdict as one to fetch from the server
_getGateValueNullFetches(user, name, v, evalRet) ==
  /\ evaluatorCalls' = evaluatorCalls + 1
  /\ IF evalRet.present /\ ~evalRet.fetch_from_server
       THEN /\ logQueue' = Append(logQueue,
                  [fn |-> "logGateExposure", user |-> v.normalizedUser,
                   name |-> name, value |-> evalRet.value, rule_id |-> evalRet.rule_id,
                   call |-> Len(calls) + 1])
            /\ calls' = Append(calls, Call("checkGate", user, name, v, evalRet,
                                           "resolved", Boolean(evalRet.value = TRUE)))
            /\ UNCHANGED dispatches
       ELSE /\ Dispatch("/check_gate", v.normalizedUser, name)
            /\ calls' = Append(calls, Call("checkGate", user, name, v, evalRet,
                                           "pending", Pending))
            /\ UNCHANGED logQueue

_getGateValue(user, name, v, evalRet) ==
  LET ret == IF evalRet.present THEN evalRet ELSE NullVerdict
  IN  /\ evaluatorCalls' = evaluatorCalls + 1
      /\ IF ~ret.fetch_from_server
           THEN /\ logQueue' = Append(logQueue,
                      [fn |-> "logGateExposure", user |-> v.normalizedUser,
                       name |-> name, value |-> ret.value, rule_id |-> ret.rule_id,
                       call |-> Len(calls) + 1])
                /\ calls' = Append(calls, Call("checkGate", user, name, v, evalRet,
                                               "resolved", Boolean(ret.value = TRUE)))
                /\ UNCHANGED dispatches
           ELSE /\ Dispatch("/check_gate", v.normalizedUser, name)
                /\ calls' = Append(calls, Call("checkGate", user, name, v, evalRet,
                                               "pending", Pending))
                /\ UNCHANGED logQueue

\* _getConfigValue without the logConfigExposure call of lines 380-385
_getConfigValueWithoutExposure(kind, user, name, v, ret) ==
  /\ evaluatorCalls' = evaluatorCalls + 1
  /\ UNCHANGED logQueue
  /\ IF ~(ret.present /\ ret.fetch_from_server)
       THEN /\ calls' = Append(calls, Call(kind, user, name, v, ret, "resolved",
                              DynamicConfig(name,
                                IF ret.present THEN "local-json" ELSE "empty",
                                ret.rule_id)))
            /\ UNCHANGED dispatches
       ELSE /\ Dispatch("/get_config", v.normalizedUser, name)
            /\ calls' = Append(calls, Call(kind, user, name, v, ret, "pending", Pending))

_getConfigValue(kind, user, name, v, ret) ==
  /\ evaluatorCalls' = evaluatorCalls + 1
  /\ IF ~(ret.present /\ ret.fetch_from_server)
       THEN LET config == DynamicConfig(name,
                            IF ret.present THEN "local-json" ELSE "empty",
                            ret.rule_id)
            IN  /\ logQueue' = Append(logQueue,
                      [fn |-> "logConfigExposure", user |-> v.normalizedUser,
                       name |-> name, value |-> FALSE, rule_id |-> config.rule_id,
                       call |-> Len(calls) + 1])
                /\ calls' = Append(calls, Call(kind, user, name, v, ret,
                                               "resolved", config))
                /\ UNCHANGED dispatches
       ELSE /\ Dispatch("/get_config", v.normalizedUser, name)
            /\ calls' = Append(calls, Call(kind, user, name, v, ret, "pending", Pending))
            /\ UNCHANGED logQueue

\* _getLayerValue fetching the layer's own name instead of its delegate's
_getLayerValueFetchesLayer(user, name, v, ret) ==
  /\ evaluatorCalls' = evaluatorCalls + 1
  /\ UNCHANGED logQueue
  /\ IF ret.present /\ ~ret.fetch_from_server
       THEN /\ calls' = Append(calls, Call("getLayer", user, name, v, ret, "resolved",
                                           Layer(name, "local-json", ret.rule_id, TRUE)))
            /\ UNCHANGED dispatches
     ELSE IF ret.present /\ ret.config_delegate # ""
       THEN /\ Dispatch("/get_config", v.normalizedUser, name)
            /\ calls' = Append(calls, Call("getLayer", user, name, v, ret, "pending", Pending))
     ELSE /\ calls' = Append(calls, Call("getLayer", user, name, v, ret, "resolved",
                                         Layer(name, "empty", "", FALSE)))
          /\ UNCHANGED dispatches

_getLayerValue(user, name, v, ret) ==
  /\ evaluatorCalls' = evaluatorCalls + 1
  /\ UNCHANGED logQueue
  /\ IF ret.present /\ ~ret.fetch_from_server
       THEN /\ calls' = Append(calls, Call("getLayer", user, name, v, ret, "resolved",
                                           Layer(name, "local-json", ret.rule_id, TRUE)))
            /\ UNCHANGED dispatches
     ELSE IF ret.present /\ ret.config_delegate # ""
       THEN /\ Dispatch("/get_config", v.normalizedUser,
                        [ValidName EXCEPT !.text = ret.config_delegate])
            /\ calls' = Append(calls, Call("getLayer", user, name, v, ret, "pending", Pending))
     ELSE /\ calls' = Append(calls, Call("getLayer", user, name, v, ret, "resolved",
                                         Layer(name, "empty", "", FALSE)))
          /\ UNCHANGED dispatches

checkGateOf(users) ==
  /\ Len(calls) < MaxCalls
  /\ \E user \in users, name \in Names :
       LET v == _validateInputs(user, name)
       IN  IF v.rejection # "null"
             THEN Rejects("checkGate", user, name, v)
             ELSE \E ret \in GateVerdicts : _getGateValue(user, name, v, ret)
  /\ UNCHANGED <<lifeVars, logVars, environment, invocations>>

getConfigOf(users) ==
  /\ Len(calls) < MaxCalls
  /\ \E user \in users, name \in Names :
       LET v == _validateInputs(user, name)
       IN  IF v.rejection # "null"
             THEN Rejects("getConfig", user, name, v)
             ELSE \E ret \in ConfigVerdicts : _getConfigValue("getConfig", user, name, v, ret)
  /\ UNCHANGED <<lifeVars, logVars, environment, invocations>>

getExperimentOf(users) ==
  /\ Len(calls) < MaxCalls
  /\ \E user \in users, name \in Names :
       LET v == _validateInputs(user, name)
       IN  IF v.rejection # "null"
             THEN Rejects("getExperiment", user, name, v)
             ELSE \E ret \in ConfigVerdicts : _getConfigValue("getExperiment", user, name, v, ret)
  /\ UNCHANGED <<lifeVars, logVars, environment, invocations>>

getLayerOf(users) ==
  /\ Len(calls) < MaxCalls
  /\ \E user \in users, name \in Names :
       LET v == _validateInputs(user, name)
       IN  IF v.rejection # "null"
             THEN Rejects("getLayer", user, name, v)
             ELSE \E ret \in LayerVerdicts : _getLayerValue(user, name, v, ret)
  /\ UNCHANGED <<lifeVars, logVars, environment, invocations>>

\* the four calls, made with the users tried on the evaluation paths
checkGate == checkGateOf(Users)

getConfig == getConfigOf(Users)

getExperiment == getExperimentOf(Users)

getLayer == getLayerOf(Users)

\* the four calls, made with users at and beyond the size limits
checkGateSized == checkGateOf(SizedUsers)

getConfigSized == getConfigOf(SizedUsers)

getExperimentSized == getExperimentOf(SizedUsers)

getLayerSized == getLayerOf(SizedUsers)

\* _fetchConfig's chain after the dispatch: parse, build, or catch and default
_fetchConfig(name, res) ==
  IF res.outcome = "json"
    THEN DynamicConfig(name, "remote-json", "remote_rule")
    ELSE DynamicConfig(name, "empty", "")

\* The futures of pending calls without the .catch() of lines 453-455 and
\* 422-424: a failed dispatch or parse rejects them all.
SettledWithoutCatch(call, res) ==
  IF res.outcome \in {"network-error", "parse-error"}
    THEN [call EXCEPT !.state = "rejected", !.result = Failure(res.outcome)]
  ELSE IF call.kind = "checkGate"
    THEN [call EXCEPT !.state = "resolved",
                      !.result = Boolean(res.outcome = "json" /\ res.value = TRUE)]
  ELSE IF call.kind = "getLayer"
    THEN LET config == _fetchConfig([ValidName EXCEPT !.text = call.ret.config_delegate], res)
         IN  [call EXCEPT !.state = "resolved",
                          !.result = Layer(call.name, config.json, config.rule_id, FALSE)]
  ELSE [call EXCEPT !.state = "resolved", !.result = _fetchConfig(call.name, res)]

\* The future a pending call returned, once its dispatch has ended with res.
Settled(call, res) ==
  IF call.kind = "checkGate"
    THEN IF res.outcome \in {"network-error", "parse-error"}
           THEN [call EXCEPT !.state = "rejected", !.result = Failure(res.outcome)]
           ELSE [call EXCEPT !.state = "resolved",
                             !.result = Boolean(res.outcome = "json" /\ res.value = TRUE)]
  ELSE IF call.kind = "getLayer"
    THEN LET config == _fetchConfig([ValidName EXCEPT !.text = call.ret.config_delegate], res)
         IN  [call EXCEPT !.state = "resolved",
                          !.result = Layer(call.name, config.json, config.rule_id, FALSE)]
  ELSE [call EXCEPT !.state = "resolved", !.result = _fetchConfig(call.name, res)]

DispatchSettles ==
  /\ \E i \in 1..Len(calls), res \in Responses :
       /\ calls[i].state = "pending"
       /\ calls' = [calls EXCEPT ![i] = [Settled(calls[i], res) EXCEPT !.response = res.outcome]]
  /\ UNCHANGED <<lifeVars, logVars, environment, evaluatorCalls, dispatches, logQueue, invocations>>

\* The closure of lines 396-404, invoked by the caller through the Layer
\* with a parameter name: it logs with the user and verdict it captured.
\* the callback, keeping one record per Layer and parameter name
logFuncDeduplicates(i, parameterName) ==
  IF \E k \in 1..Len(logQueue) :
       /\ logQueue[k].fn = "logLayerExposure"
       /\ logQueue[k].call = i
       /\ logQueue[k].parameterName = parameterName
    THEN UNCHANGED logQueue
    ELSE logQueue' = Append(logQueue,
             [fn |-> "logLayerExposure", user |-> calls[i].normalizedUser,
              name |-> calls[i].result.name, value |-> FALSE,
              rule_id |-> calls[i].ret.rule_id, call |-> i,
              parameterName |-> parameterName])

logFunc(i, parameterName) ==
  logQueue' = Append(logQueue,
      [fn |-> "logLayerExposure", user |-> calls[i].normalizedUser,
       name |-> calls[i].result.name, value |-> FALSE,
       rule_id |-> calls[i].ret.rule_id, call |-> i,
       parameterName |-> parameterName])

\* A caller reads a parameter of a Layer it was given; the Layer invokes the
\* callback it was constructed with.
LayerParameterRead ==
  /\ Len(invocations) < MaxLayerLogs
  /\ \E i \in 1..Len(calls), parameterName \in {"p", "q"} :
       /\ calls[i].state = "resolved"
       /\ calls[i].result.type = "Layer"
       /\ calls[i].result.hasLogFunc
       /\ invocations' = Append(invocations, [call |-> i, parameterName |-> parameterName])
       /\ logFunc(i, parameterName)
  /\ UNCHANGED <<lifeVars, logVars, environment, calls, evaluatorCalls, dispatches>>

\* --------------------------------------------------------------- logEvent
\* An event name or a string value: whether it is a string, and which part of
\* the caller's string it holds.
StrArg(length) == [isString |-> TRUE, length |-> length, start |-> 0]

NotAString == [isString |-> FALSE, length |-> 0, start |-> 0]

\* value: null, a number, or a string
NullValue == [type |-> "null", isString |-> FALSE, length |-> 0, start |-> 0]
NumberValue == [type |-> "number", isString |-> FALSE, length |-> 0, start |-> 0]
StringValue(length) == [type |-> "string", isString |-> TRUE, length |-> length, start |-> 0]

\* metadata: null, or the caller's object with the length of its JSON text
NullMetadata == [kind |-> "null", length |-> 0]
Metadata(length) == [kind |-> "caller's", length |-> length]

\* { error: 'not logged due to size too large' }, 45 characters as JSON
DroppedMetadata == [kind |-> "dropped", length |-> 45]

EventObject(eventName, user, value, metadata, time) ==
  [eventName |-> eventName, user |-> user, value |-> value,
   metadata |-> metadata, time |-> time]

\* The event objects tried: the two kinds of invalid name; names, values and
\* metadata below, at and above their limits; time unset, a number, a string;
\* a null and an empty user, and users at and beyond the size limits.
EventObjects ==
  { EventObject(NotAString, MkUser(TRUE, 5, FALSE, 0, FALSE, 0), NullValue, NullMetadata, "null"),
    EventObject(StrArg(0), NullUser, NullValue, NullMetadata, "null"),
    EventObject(StrArg(6), NullUser, NullValue, NullMetadata, "null"),
    EventObject(StrArg(6), EmptyUser, NumberValue, Metadata(1024), "number"),
    EventObject(StrArg(64), MkUser(TRUE, 64, FALSE, 0, FALSE, 0), StringValue(64), NullMetadata, "null"),
    EventObject(StrArg(65), MkUser(TRUE, 65, FALSE, 0, FALSE, 0), StringValue(5), Metadata(1025), "string"),
    EventObject(StrArg(100), MkUser(TRUE, 5, FALSE, 0, TRUE, 2012), StringValue(65), Metadata(1025), "number"),
    EventObject(StrArg(6), MkUser(TRUE, 5, FALSE, 0, TRUE, 2013), StringValue(100), Metadata(5), "null"),
    EventObject(StrArg(6), MkUser(TRUE, 2100, FALSE, 0, TRUE, 20), NullValue, NullMetadata, "null"),
    EventObject(StrArg(6), MkUser(TRUE, 2100, FALSE, 0, TRUE, 2000), NullValue, NullMetadata, "null"),
    EventObject(StrArg(6), MkUser(TRUE, 5, TRUE, 3000, TRUE, 20), NullValue, NullMetadata, "null"),
    EventObject(StrArg(6), MkUser(FALSE, 0, TRUE, 3000, FALSE, 0), NullValue, NullMetadata, "null") }

\* what getClientInitializeResponse records in place of an event object
NoEventObject == EventObject(NotAString, NullUser, NullValue, NullMetadata, "null")

\* the condition of line 196 accepting the empty string
eventNameIsValidAcceptsEmpty(eventName) == eventName.isString

\* the condition of line 196, negated
eventNameIsValid(eventName) == eventName.isString /\ eventName.length # 0

\* the flag following the last user seen instead of being set once
noUserIdWarningAfterFollowsUser(user) == ~isUserIdentifiable(user)

\* hasLoggedNoUserIdWarning after lines 202-207
noUserIdWarningAfter(user) ==
  IF ~isUserIdentifiable(user) /\ ~hasLoggedNoUserIdWarning
    THEN TRUE
    ELSE hasLoggedNoUserIdWarning

\* lines 208-240 cutting the value only where the name was cut too
buildLogEventCutsValueWithName(eventObject, env) ==
  LET cut == shouldTrimString(eventObject.eventName.length, MAX_VALUE_SIZE)
  IN  [eventName |-> IF cut
                       THEN substring(eventObject.eventName, 0, MAX_VALUE_SIZE)
                       ELSE eventObject.eventName,
       user |-> normalizeUser(eventObject.user, env),
       value |-> IF cut /\ eventObject.value.type = "string"
                        /\ shouldTrimString(eventObject.value.length, MAX_VALUE_SIZE)
                   THEN substring(eventObject.value, 0, MAX_VALUE_SIZE)
                   ELSE eventObject.value,
       metadata |-> IF eventObject.metadata.kind # "null"
                       /\ eventObject.metadata.length > MAX_OBJ_SIZE
                      THEN DroppedMetadata
                      ELSE eventObject.metadata,
       time |-> IF eventObject.time = "number" THEN "number" ELSE "unset"]

\* The LogEvent of lines 208-240: the normalized user, the name and a string
\* value cut to MAX_VALUE_SIZE, the metadata or its replacement, and the time
\* when it is a number.
buildLogEvent(eventObject, env) ==
  [eventName |-> IF shouldTrimString(eventObject.eventName.length, MAX_VALUE_SIZE)
                   THEN substring(eventObject.eventName, 0, MAX_VALUE_SIZE)
                   ELSE eventObject.eventName,
   user |-> normalizeUser(eventObject.user, env),
   value |-> IF eventObject.value.type = "string"
                /\ shouldTrimString(eventObject.value.length, MAX_VALUE_SIZE)
               THEN substring(eventObject.value, 0, MAX_VALUE_SIZE)
               ELSE eventObject.value,
   metadata |-> IF eventObject.metadata.kind # "null"
                   /\ eventObject.metadata.length > MAX_OBJ_SIZE
                  THEN DroppedMetadata
                  ELSE eventObject.metadata,
   time |-> IF eventObject.time = "number" THEN "number" ELSE "unset"]

\* The record of one logEventObject or getClientInitializeResponse call: its
\* arguments, whether it threw or returned, the caller's user object after
\* it, the user normalizeUser returned (if it was called), which entry of
\* logged it added (0: none) and what it returned.
SyncCall(kind, user, eventObject, outcome, normalized, forwarded, ret) ==
  [kind |-> kind, user |-> user, eventObject |-> eventObject, outcome |-> outcome,
   userAfter |-> IF normalized
                   THEN argumentAfterNormalizeUser(user, environment)
                   ELSE user,
   normalized |-> normalized,
   normalizedUser |-> IF normalized THEN normalizeUser(user, environment) ELSE EmptyUser,
   forwarded |-> forwarded, ret |-> ret]

logEventObjectEffect(eventObject) ==
  IF ~(_ready = TRUE)
    THEN /\ syncCalls' = Append(syncCalls,
              SyncCall("logEventObject", eventObject.user, eventObject, "threw",
                       FALSE, 0, "none"))
         /\ UNCHANGED <<hasLoggedNoUserIdWarning, logged>>
  ELSE IF ~eventNameIsValid(eventObject.eventName)
    THEN /\ syncCalls' = Append(syncCalls,
              SyncCall("logEventObject", eventObject.user, eventObject, "returned",
                       FALSE, 0, "none"))
         /\ UNCHANGED <<hasLoggedNoUserIdWarning, logged>>
  ELSE /\ hasLoggedNoUserIdWarning' = noUserIdWarningAfter(eventObject.user)
       /\ logged' = Append(logged, buildLogEvent(eventObject, environment))
       /\ syncCalls' = Append(syncCalls,
            SyncCall("logEventObject", eventObject.user, eventObject, "returned",
                     TRUE, Len(logged) + 1, "none"))

logEventObject ==
  /\ Len(syncCalls) < MaxSyncCalls
  /\ \E eventObject \in EventObjects : logEventObjectEffect(eventObject)
  /\ UNCHANGED <<lifeVars, evalVars, flushes>>

\* logEvent(user, eventName, value, metadata): logEventObject with no time
logEvent ==
  /\ Len(syncCalls) < MaxSyncCalls
  /\ \E eventObject \in {o \in EventObjects : o.time = "null"} :
       logEventObjectEffect(eventObject)
  /\ UNCHANGED <<lifeVars, evalVars, flushes>>

\* ------------------------------------------- getClientInitializeResponse
\* The users tried: null, an overlong userID, an oversized customIDs entry.
ResponseUsers ==
  { NullUser,
    MkUser(TRUE, 65, FALSE, 0, FALSE, 0),
    MkUser(FALSE, 0, TRUE, 3000, FALSE, 0) }

getClientInitializeResponse ==
  /\ Len(syncCalls) < MaxSyncCalls
  /\ \E user \in ResponseUsers :
       IF _ready # TRUE
         THEN /\ syncCalls' = Append(syncCalls,
                   SyncCall("getClientInitializeResponse", user, NoEventObject,
                            "threw", FALSE, 0, "none"))
              /\ UNCHANGED evaluatorCalls
         ELSE /\ evaluatorCalls' = evaluatorCalls + 1
              /\ \E ret \in {"json", "null"} :
                   syncCalls' = Append(syncCalls,
                     SyncCall("getClientInitializeResponse", user, NoEventObject,
                              "returned", TRUE, 0, ret))
  /\ UNCHANGED <<lifeVars, environment, calls, dispatches, logQueue, invocations,
                 hasLoggedNoUserIdWarning, logged, flushes>>

EvalInit ==
  /\ environment \in {"null", "production"}
  /\ calls = <<>>
  /\ evaluatorCalls = 0
  /\ dispatches = <<>>
  /\ logQueue = <<>>
  /\ invocations = <<>>

LogInit ==
  /\ hasLoggedNoUserIdWarning = FALSE
  /\ syncCalls = <<>>
  /\ logged = <<>>
  /\ flushes = 0

\* ----------------------------------------------------------- specification
Init == LifeInit /\ EvalInit /\ LogInit

\* The lifecycle: initialize(), the two callbacks racing to end an attempt,
\* shutdown(), flush().
Next ==
  \/ initializeAsync
  \/ InitLoadSettles
  \/ InitTimerFires
  \/ shutdown
  \/ flush

Spec == Init /\ [][Next]_vars

\* The evaluation paths, on an instance with a well-formed key and no init
\* timeout that is initialized at most once and shut down at most once (no
\* collaborator throwing), so that calls are made while NotReady, while
\* initializing, while Ready and after shutdown().
EvalScope ==
  /\ nAttempts <= 1 /\ Len(initCalls) <= 1 /\ shutdowns <= 1
  /\ Len(shutdownCalls) \in {0, Len(Collaborators)}

InitEval == Init /\ KeyIsValid(_secretKey) /\ initTimeoutMs = 0

NextEval ==
  \/ initializeAsync /\ EvalScope'
  \/ InitLoadSettles
  \/ shutdown /\ EvalScope'
  \/ checkGate
  \/ getConfig
  \/ getExperiment
  \/ getLayer
  \/ DispatchSettles
  \/ LayerParameterRead

SpecEval == InitEval /\ [][NextEval]_vars

\* The same paths, called with users at and beyond the size limits.
NextSized ==
  \/ initializeAsync /\ EvalScope'
  \/ InitLoadSettles
  \/ shutdown /\ EvalScope'
  \/ checkGateSized
  \/ getConfigSized
  \/ getExperimentSized
  \/ getLayerSized
  \/ DispatchSettles
  \/ LayerParameterRead

SpecSized == InitEval /\ [][NextSized]_vars

\* The event and bootstrap calls, on the same instances.
NextLog ==
  \/ initializeAsync /\ EvalScope'
  \/ InitLoadSettles
  \/ shutdown /\ EvalScope'
  \/ logEvent
  \/ logEventObject
  \/ getClientInitializeResponse

SpecLog == InitEval /\ [][NextLog]_vars

\* The calls that depend on readiness, with the whole initialization race: an
\* instance with a well-formed key, with or without an init timeout, that is
\* loaded at most once and shut down at most once, on which one gate, config or layer is asked for or one event is logged.
ReadyScope ==
  /\ nAttempts <= 1 /\ shutdowns <= 1
  /\ Len(shutdownCalls) \in {0, Len(Collaborators)}
  /\ Len(calls) + Len(syncCalls) <= 1

\* the user these calls are made with
ReadyUsers == { MkUser(TRUE, 5, FALSE, 0, FALSE, 0) }

InitReady == Init /\ KeyIsValid(_secretKey)

NextReady ==
  \/ initializeAsync /\ ReadyScope'
  \/ InitLoadSettles
  \/ InitTimerFires
  \/ shutdown /\ ReadyScope'
  \/ checkGateOf(ReadyUsers) /\ ReadyScope'
  \/ getConfigOf(ReadyUsers) /\ ReadyScope'
  \/ getLayerOf(ReadyUsers) /\ ReadyScope'
  \/ logEvent /\ ReadyScope'

SpecReady == InitReady /\ [][NextReady]_vars

\* ------------------------------------------------------------------ claims
InitCallIds == 1..Len(initCalls)

C2_AtMostOneLoadInFlight ==
  Cardinality({a \in Attempts : load[a] = "pending"}) <= 1

\* the second of an attempt's two callbacks runs: its future is already
\* settled, and now its load settles or its timer fires
LoserCompletes(a) ==
  /\ timer[a] # "none"
  /\ promise[a] # "pending"
  /\ \/ load[a] = "pending" /\ load'[a] # "pending"
     \/ timer[a] = "pending" /\ timer'[a] = "fired"

\* C3: with a timeout configured, the callback that runs second for an
\* attempt changes neither the ready flag nor the pending future.
C3_LoserChangesNothing ==
  [][(\E a \in Attempts : LoserCompletes(a)) =>
       /\ _ready' = _ready
       /\ _pendingInitPromise' = _pendingInitPromise]_vars

\* C4: after shutdown() the instance is not Ready until initialize() is
\* called again.
C4_NotReadyAfterShutdown ==
  sinceShutdown = "quiet" => _ready = FALSE

\* C5: when an attempt's timer fires while its load is still pending, the
\* attempt's future goes from pending to resolved in that step, the instance
\* is Ready, and the load is still pending; and only shutdown() takes the
\* instance out of Ready.
C5_TimerWinsWhileLoadPending ==
  /\ [][\A a \in Attempts :
          (timer[a] = "pending" /\ timer'[a] = "fired" /\ load[a] = "pending") =>
            /\ promise[a] = "pending" /\ promise'[a] = "resolved"
            /\ _ready' = TRUE
            /\ load'[a] = "pending"]_vars
  /\ [][(_ready = TRUE /\ _ready' = FALSE) => shutdowns' = shutdowns + 1]_vars

\* the timer has won: the future is resolved and the instance Ready while
\* the load is still in flight
C5_Witness ==
  \E a \in Attempts :
    /\ timer[a] = "fired" /\ load[a] = "pending"
    /\ promise[a] = "resolved" /\ _ready = TRUE

CallIds == 1..Len(calls)

\* the entries of the log queue and of the dispatch record made by call i
ExposuresOf(i) == {k \in 1..Len(logQueue) : logQueue[k].call = i}

DispatchesOf(i) == {k \in 1..Len(dispatches) : dispatches[k].call = i}

\* what the checks demand of a call's arguments and of the instance at call
\* time, read off the recorded call
ValidInputs(c) ==
  /\ c.readyAtCall = TRUE
  /\ c.name.isString /\ c.name.length > 0
  /\ ~c.user.isNull /\ (c.user.hasUserID \/ c.user.hasCustomIDs)

\* decided without the network: the evaluator returned nothing, or a verdict
\* with fetch_from_server = false
LocalVerdict(c) == ~(c.ret.present /\ c.ret.fetch_from_server)

EagerKinds == {"checkGate", "getConfig", "getExperiment"}

\* C6: a check made while not Ready, with a name that is not a non-empty
\* string, or for a user with neither userID nor customIDs is rejected at
\* once (its future is never pending), without asking the evaluator, without
\* a dispatch and without an exposure record.
C6_InvalidCallsRejectUpFront ==
  /\ \A i \in CallIds :
       ~ValidInputs(calls[i]) =>
         /\ calls[i].state = "rejected"
         /\ calls[i].response = "none"
         /\ calls[i].ret = NotConsulted
         /\ ExposuresOf(i) = {}
         /\ DispatchesOf(i) = {}
  /\ evaluatorCalls <= Cardinality({i \in CallIds : ValidInputs(calls[i])})

\* a call on a Ready instance with a good name and the user {} was rejected
C6_Witness ==
  \E i \in CallIds :
    /\ calls[i].readyAtCall = TRUE
    /\ calls[i].name = ValidName
    /\ calls[i].user = EmptyUser
    /\ calls[i].state = "rejected"

\* C7: a checkGate whose dispatch or parse failed is rejected; a getConfig,
\* getExperiment or getLayer whose dispatch or parse failed is resolved with
\* an empty value object; and no getConfig, getExperiment or getLayer call
\* that passed the checks is ever rejected.
C7_GateRejectsConfigsDegrade ==
  \A i \in CallIds :
    LET c == calls[i]
        failed == c.response \in {"network-error", "parse-error"}
    IN  /\ (c.kind = "checkGate" /\ failed) => c.state = "rejected"
        /\ (c.kind # "checkGate" /\ failed) =>
             /\ c.state = "resolved"
             /\ c.result.type = (IF c.kind = "getLayer" THEN "Layer" ELSE "DynamicConfig")
             /\ c.result.json = "empty"
        /\ (c.kind # "checkGate" /\ ValidInputs(c)) => c.state # "rejected"

\* a gate check sent to the server was rejected by a network failure
C7_Witness ==
  \E i \in CallIds :
    /\ calls[i].kind = "checkGate"
    /\ calls[i].ret.fetch_from_server
    /\ calls[i].response = "network-error"
    /\ calls[i].state = "rejected"

\* the exposure records of call i that carry its user and its name
MatchingExposures(i) ==
  {k \in ExposuresOf(i) :
     logQueue[k].user = calls[i].normalizedUser /\ logQueue[k].name = calls[i].name}

\* C8 as stated: every resolved checkGate / getConfig / getExperiment call,
\* local or remote, has pushed exactly one exposure record for its user and
\* name.
C8_EveryResolvedCallExposedOnce ==
  \A i \in CallIds :
    (calls[i].kind \in EagerKinds /\ calls[i].state = "resolved") =>
      Cardinality(MatchingExposures(i)) = 1

\* C8 amended: a checkGate / getConfig / getExperiment call decided locally
\* is resolved with exactly one exposure record for its user and name already
\* pushed, by logGateExposure or logConfigExposure as its kind demands; a call
\* sent to the server has pushed none, neither while pending nor once settled.
C8_LocalCallsExposedOnce ==
  \A i \in CallIds :
    LET c == calls[i]
    IN  c.kind \in EagerKinds =>
          /\ (c.state = "resolved" /\ c.response = "none") =>
               /\ Cardinality(ExposuresOf(i)) = 1
               /\ MatchingExposures(i) = ExposuresOf(i)
               /\ \A k \in ExposuresOf(i) :
                    logQueue[k].fn = (IF c.kind = "checkGate" THEN "logGateExposure"
                                                              ELSE "logConfigExposure")
          /\ (c.state = "pending" \/ c.response # "none") => ExposuresOf(i) = {}

\* a config decided locally is resolved and its one exposure is in the queue
C8_Witness ==
  \E i \in CallIds :
    /\ calls[i].kind = "getConfig"
    /\ calls[i].state = "resolved"
    /\ calls[i].ret.present /\ ~calls[i].ret.fetch_from_server
    /\ Cardinality(MatchingExposures(i)) = 1

\* C9: a checkGate / getConfig / getExperiment call that passed the checks
\* and whose verdict is local never dispatches: it is resolved at once, and a
\* checkGate resolves to a boolean, the verdict's value, or false when the
\* evaluator returned nothing.
C9_LocalVerdictNeverDispatches ==
  \A i \in CallIds :
    LET c == calls[i]
    IN  (c.kind \in EagerKinds /\ ValidInputs(c) /\ LocalVerdict(c)) =>
          /\ DispatchesOf(i) = {}
          /\ c.response = "none"
          /\ c.state = "resolved"
          /\ c.kind = "checkGate" =>
               /\ c.result.type = "boolean"
               /\ c.result.value \in BOOLEAN
               /\ c.result.value = (c.ret.present /\ c.ret.value)

\* the evaluator returned nothing for a gate and the check resolved to false
C9_Witness ==
  \E i \in CallIds :
    /\ calls[i].kind = "checkGate"
    /\ ValidInputs(calls[i])
    /\ ~calls[i].ret.present
    /\ calls[i].state = "resolved"
    /\ calls[i].result = Boolean(FALSE)
    /\ dispatches = <<>>

IsLayerExposure(e) == e.fn = "logLayerExposure"

LayerExposures == SelectSeq(logQueue, IsLayerExposure)

\* C10 as stated: every Layer that getLayer returns carries the callback.
C10_EveryLayerHasCallback ==
  \A i \in CallIds :
    (calls[i].kind = "getLayer" /\ calls[i].state = "resolved") =>
      calls[i].result.hasLogFunc

\* C10 amended: getLayer itself pushes no exposure record; a Layer built from
\* a local verdict (present, fetch_from_server = false) carries the callback
\* and no other Layer does; the layer exposure records in the queue are, one
\* for one and in order, the invocations of the callbacks, each with the
\* invocation's parameter name and the user, name and rule of the verdict the
\* Layer was built from.
C10_DeferredLayerExposure ==
  /\ \A i \in CallIds :
       calls[i].kind = "getLayer" =>
         /\ \A k \in ExposuresOf(i) : IsLayerExposure(logQueue[k])
         /\ calls[i].state = "resolved" =>
              (calls[i].result.hasLogFunc <=>
                 (calls[i].ret.present /\ ~calls[i].ret.fetch_from_server))
  /\ Len(LayerExposures) = Len(invocations)
  /\ \A k \in 1..Len(invocations) :
       LET e == LayerExposures[k]
           c == calls[invocations[k].call]
       IN  /\ e.call = invocations[k].call
           /\ e.parameterName = invocations[k].parameterName
           /\ e.user = c.normalizedUser
           /\ e.name = c.name
           /\ e.rule_id = c.ret.rule_id

\* the callback of one Layer was invoked twice with the same parameter name
\* and the queue holds two records
C10_Witness ==
  /\ Len(invocations) = 2
  /\ invocations[1] = invocations[2]
  /\ Len(LayerExposures) = 2
  /\ LayerExposures[1] = LayerExposures[2]

\* the key is a non-empty string starting with 'secret-'
WellFormedKey ==
  _secretKey.isString /\ _secretKey.length > 0 /\ _secretKey.secretPrefix

\* C11: on an instance whose key is malformed every initialize() call returns
\* a rejected future, no evaluator.init() call and no timer is ever started,
\* and the ready flag and the pending future stay as constructed.
C11_MalformedKeyFailsFast ==
  ~WellFormedKey =>
    /\ \A i \in InitCallIds : initCalls[i].ret = RejectedNow
    /\ nAttempts = 0
    /\ \A a \in Attempts : load[a] = "none" /\ timer[a] = "none" /\ promise[a] = "none"
    /\ _ready = FALSE
    /\ _pendingInitPromise = 0

\* initialize() was called twice on an instance whose key lacks the prefix
C11_Witness ==
  /\ _secretKey.isString /\ _secretKey.length > 0 /\ ~_secretKey.secretPrefix
  /\ Len(initCalls) = 2
  /\ initCalls[1].ret = RejectedNow /\ initCalls[2].ret = RejectedNow

\* C17: a shutdown() call invokes shutdown on all three collaborators, even
\* when one of them throws.
C17_ShutdownReachesAllCollaborators ==
  shutdowns > 0 => Len(shutdownCalls) = Len(Collaborators)

\* C18: a getLayer call that passed the checks dispatches exactly once, to
\* /get_config with the delegate's name, when its verdict is present, has
\* fetch_from_server = true and names a delegate, and never otherwise; it is
\* never rejected and its Layer carries the layer's own name; a local verdict
\* is used as it is; no verdict, no delegate or a failed fetch gives an empty
\* Layer, and a fetched delegate gives its value.
C18_LayerDelegateFetch ==
  \A i \in CallIds :
    LET c == calls[i]
        fetches == c.ret.present /\ c.ret.fetch_from_server /\ c.ret.config_delegate # ""
    IN  (c.kind = "getLayer" /\ ValidInputs(c)) =>
          /\ Cardinality(DispatchesOf(i)) = (IF fetches THEN 1 ELSE 0)
          /\ \A k \in DispatchesOf(i) :
               /\ dispatches[k].url = "/get_config"
               /\ dispatches[k].name.text = c.ret.config_delegate
          /\ c.state # "rejected"
          /\ (c.state = "pending") => (fetches /\ c.response = "none")
          /\ (c.state = "resolved") =>
               /\ c.result.type = "Layer"
               /\ c.result.name = c.name
               /\ c.result.json =
                    (IF c.ret.present /\ ~c.ret.fetch_from_server THEN "local-json"
                     ELSE IF fetches /\ c.response = "json" THEN "remote-json"
                     ELSE "empty")

\* a layer's delegate was fetched and the Layer built from it carries the
\* layer's name, not the delegate's
C18_Witness ==
  \E i \in CallIds :
    /\ calls[i].kind = "getLayer"
    /\ calls[i].response = "json"
    /\ calls[i].result.type = "Layer"
    /\ calls[i].result.name = calls[i].name
    /\ calls[i].result.json = "remote-json"
    /\ \E k \in DispatchesOf(i) : dispatches[k].name.text = "delegate"

\* C20: whenever the ready flag is true the pending future is null.
C20_ReadyExcludesPending ==
  _ready = TRUE => _pendingInitPromise = 0

\* a stale callback of the first attempt made the instance Ready while the
\* second attempt's load is still in flight
C20_Witness ==
  /\ _ready = TRUE
  /\ _pendingInitPromise = 0
  /\ nAttempts = 2
  /\ load[2] = "pending" /\ promise[2] = "pending"

\* C15: after a checkGate / getConfig / getExperiment / getLayer call the
\* user object the caller passed in is as it was before the call: same
\* userID, same custom, no statsigEnvironment field added.
C15_CallerUserUntouched ==
  \A i \in CallIds :
    /\ calls[i].userAfter.userID = calls[i].user.userID
    /\ calls[i].userAfter.hasCustom = calls[i].user.hasCustom
    /\ calls[i].userAfter.custom = calls[i].user.custom
    /\ calls[i].userAfter.statsigEnvironment = calls[i].user.statsigEnvironment

\* C19: every user handed to the evaluator, and every user sent with a
\* dispatch, carries a userID or a customIDs entry.
C19_EvaluatedUsersIdentifiable ==
  /\ \A i \in CallIds :
       calls[i].ret # NotConsulted => isUserIdentifiable(calls[i].normalizedUser)
  /\ \A k \in 1..Len(dispatches) : isUserIdentifiable(dispatches[k].user)

SyncCallIds == 1..Len(syncCalls)

\* the event name is the empty string or no string
InvalidEventName(eventName) == ~eventName.isString \/ eventName.length = 0

\* C12: a logEventObject or getClientInitializeResponse call made while the
\* instance is not ready throws, and a logEventObject call made while ready
\* with an empty or non-string event name returns; in both cases nothing is
\* passed to the log queue, the caller's user is untouched and no variable
\* other than the record of the call changes.
C12_EarlyExitsChangeNothing ==
  [][ Len(syncCalls') > Len(syncCalls) =>
        LET c == syncCalls'[Len(syncCalls')]
            notReady == _ready # TRUE
            badName  == /\ _ready = TRUE
                        /\ c.kind = "logEventObject"
                        /\ InvalidEventName(c.eventObject.eventName)
        IN  /\ notReady => c.outcome = "threw"
            /\ badName => c.outcome = "returned"
            /\ (notReady \/ badName) =>
                 /\ c.forwarded = 0
                 /\ c.userAfter = c.user
                 /\ UNCHANGED <<lifeVars, evalVars, hasLoggedNoUserIdWarning,
                                logged, flushes>>
    ]_vars

\* getClientInitializeResponse threw before initialization, and later a
\* logEventObject call with an empty name returned on the ready instance;
\* nothing was logged
C12_Witness ==
  /\ Len(syncCalls) = 2
  /\ syncCalls[1].kind = "getClientInitializeResponse"
  /\ syncCalls[1].outcome = "threw"
  /\ syncCalls[2].kind = "logEventObject"
  /\ syncCalls[2].eventObject.eventName = StrArg(0)
  /\ syncCalls[2].outcome = "returned"
  /\ _ready = TRUE
  /\ logged = <<>>
  /\ hasLoggedNoUserIdWarning = FALSE

\* C13: a logEventObject call made while ready with a non-empty string name
\* returns and passes exactly one LogEvent to the log queue, whoever the user
\* is; hasLoggedNoUserIdWarning, once true, stays true.
C13_ValidEventsAlwaysLogged ==
  [][ /\ hasLoggedNoUserIdWarning = TRUE => hasLoggedNoUserIdWarning' = TRUE
      /\ Len(syncCalls') > Len(syncCalls) =>
           LET c == syncCalls'[Len(syncCalls')]
           IN  ( /\ _ready = TRUE
                 /\ c.kind = "logEventObject"
                 /\ ~InvalidEventName(c.eventObject.eventName) ) =>
                   /\ c.outcome = "returned"
                   /\ Len(logged') = Len(logged) + 1
                   /\ SubSeq(logged', 1, Len(logged)) = logged
                   /\ c.forwarded = Len(logged')
    ]_vars

\* two events were logged, the first for a null user (which set the flag),
\* the second for a user with no identifier
C13_Witness ==
  /\ Len(syncCalls) = 2
  /\ Len(logged) = 2
  /\ syncCalls[1].user = NullUser
  /\ syncCalls[2].user = EmptyUser
  /\ syncCalls[1].forwarded = 1
  /\ syncCalls[2].forwarded = 2
  /\ hasLoggedNoUserIdWarning = TRUE

\* what the claim's three cases make of a user: the first 64 units of an
\* overlong userID; then the user as it is, or with custom emptied, or only
\* its userID
C14_Cascade(user) ==
  LET t  == IF user.hasUserID /\ user.userID > 64
              THEN [user EXCEPT !.userID = 64, !.userIDStart = 0]
              ELSE user
      tc == [t EXCEPT !.hasCustom = TRUE, !.custom = 0]
  IN  IF JSONLength(t) <= 2048 THEN t
      ELSE IF JSONLength(tc) <= 2048 THEN tc
      ELSE [hasUserID |-> t.hasUserID, userID |-> t.userID, userIDStart |-> t.userIDStart,
            isNull |-> FALSE, hasCustomIDs |-> FALSE, customIDs |-> 0,
            hasCustom |-> FALSE, custom |-> 0, statsigEnvironment |-> "null"]

\* C14 as stated: the user normalizeUser returns for a user object is exactly
\* what the three cases give (unchanged apart from the cut userID; custom
\* emptied; only the userID), with nothing else in it.
C14_NormalizedIsCascadeOnly ==
  \A i \in SyncCallIds :
    (syncCalls[i].normalized /\ ~syncCalls[i].user.isNull) =>
      syncCalls[i].normalizedUser = C14_Cascade(syncCalls[i].user)

\* C14, amended: the user normalizeUser returns for a user object is what the
\* three cases give, with statsigEnvironment set on it when an environment is
\* configured.
C14_NormalizedIsCascadeThenStamp ==
  \A i \in SyncCallIds :
    (syncCalls[i].normalized /\ ~syncCalls[i].user.isNull) =>
      /\ [syncCalls[i].normalizedUser EXCEPT !.statsigEnvironment = "null"]
           = C14_Cascade(syncCalls[i].user)
      /\ syncCalls[i].normalizedUser.statsigEnvironment = environment

\* with an environment configured, a user with an overlong userID and a
\* custom entry that is too large was normalized: userID cut, custom emptied
C14_Witness ==
  \E i \in SyncCallIds :
    /\ syncCalls[i].normalized
    /\ syncCalls[i].user = MkUser(TRUE, 2100, FALSE, 0, TRUE, 2000)
    /\ syncCalls[i].normalizedUser.userID = 64
    /\ syncCalls[i].normalizedUser.hasCustom
    /\ syncCalls[i].normalizedUser.custom = 0
    /\ syncCalls[i].normalizedUser.statsigEnvironment = "production"

\* C16: in a logged event the name is the first min(length, 64) units of the
\* name passed, a string value is the first min(length, 64) units of the
\* value passed whatever the name's length, metadata of more than 1024
\* characters is replaced by the fixed object and other metadata is passed on
\* as it is.
C16_EventFieldsCut ==
  \A i \in SyncCallIds :
    syncCalls[i].forwarded > 0 =>
      LET o == syncCalls[i].eventObject
          e == logged[syncCalls[i].forwarded]
      IN  /\ e.eventName.length = (IF o.eventName.length < 64 THEN o.eventName.length ELSE 64)
          /\ e.eventName.start = 0
          /\ o.value.type = "string" =>
               /\ e.value.type = "string"
               /\ e.value.length = (IF o.value.length < 64 THEN o.value.length ELSE 64)
               /\ e.value.start = 0
          /\ (o.metadata.kind # "null" /\ o.metadata.length > 1024) =>
               e.metadata = DroppedMetadata
          /\ o.metadata.length <= 1024 => e.metadata = o.metadata

\* an event with a 100-unit name, a 65-unit value and 1025 characters of
\* metadata was logged with name and value of 64 units and the fixed object
C16_Witness ==
  \E i \in SyncCallIds :
    /\ syncCalls[i].forwarded > 0
    /\ syncCalls[i].eventObject.eventName = StrArg(100)
    /\ syncCalls[i].eventObject.value = StringValue(65)
    /\ syncCalls[i].eventObject.metadata = Metadata(1025)
    /\ logged[syncCalls[i].forwarded].eventName.length = 64
    /\ logged[syncCalls[i].forwarded].value.length = 64
    /\ logged[syncCalls[i].forwarded].metadata = DroppedMetadata

\* C21: the step in which a ruleset load fails sets _ready, clears the
\* pending future and, unless the timer has already resolved it, rejects the
\* future of that attempt; from then on (no shutdown() having been made) a
\* gate, config or layer call is not rejected for readiness, logEvent does
\* not throw, and initialize() returns a resolved future and starts no load.
C21_FailedLoadStillReady ==
  [][ /\ \A a \in Attempts :
           (load[a] = "pending" /\ load'[a] = "failed") =>
             /\ _ready' = TRUE
             /\ _pendingInitPromise' = 0
             /\ promise[a] = "pending" => promise'[a] = "rejected"
      /\ (shutdowns = 0 /\ \E a \in Attempts : load[a] = "failed") =>
           /\ Len(calls') > Len(calls) =>
                calls'[Len(calls')].result # Failure("Must call initialize() first.")
           /\ Len(syncCalls') > Len(syncCalls) =>
                syncCalls'[Len(syncCalls')].outcome = "returned"
           /\ Len(initCalls') > Len(initCalls) =>
                /\ initCalls'[Len(initCalls')].ret = ResolvedNow
                /\ nAttempts' = nAttempts
                /\ load' = load
    ]_vars

\* with the timer still pending the load failed and the future rejected; a
\* gate was then evaluated and a second initialize() resolved at once, with
\* no second load
C21_Witness ==
  /\ initTimeoutMs = TimeoutMs
  /\ shutdowns = 0
  /\ nAttempts = 1
  /\ load[1] = "failed" /\ timer[1] = "pending" /\ promise[1] = "rejected"
  /\ _ready = TRUE /\ _pendingInitPromise = 0
  /\ Len(calls) = 1
  /\ calls[1].kind = "checkGate" /\ calls[1].readyAtCall = TRUE
  /\ calls[1].state = "resolved" /\ calls[1].result.type = "boolean"
  /\ Len(initCalls) = 2
  /\ initCalls[2].readyBefore = TRUE
  /\ initCalls[2].ret = ResolvedNow
  /\ initCalls[2].loadsAfter = 1

=============================================================================
